---- MODULE Spec2Model ----
(***************************************************************************)
(* Suspend/resume workflows, the tools that start them and the resume      *)
(* route of the Mastra chat agent.                                         *)
(*                                                                         *)
(* Character strings that the code inspects character by character (the   *)
(* email) are sequences of one-character strings; strings that are only    *)
(* compared or passed on (messages, option ids, labels) are TLA+ strings.  *)
(* An optional value is the empty sequence (undefined) or <<v>>.           *)
(***************************************************************************)
EXTENDS Integers, Sequences, FiniteSets, TLC

\* ---------------------------------------------------------------- bounds
\* longest email string enumerated over Alphabet
MaxLen == 2

\* number of run ids that can be allocated
MaxRuns == 1

\* largest searchResultsCount handed to the escalation tool
MaxCount == 1

\* largest clock reading Date.now() enumerated
MaxNow == 10

\* longest fraction of the base-36 text of Math.random() enumerated
MaxFrac == 6

\* longest id string a run handle reports
MaxIdLen == 2

\* longest query text enumerated
MaxQueryLen == 2

\* most hits the retrieval backend hands back in one list of documents
MaxHits == 2

\* most chunks the agent's response stream carries
MaxChunks == 2

\* ------------------------------------------------------------- optionals
Absent == <<>>

Some(x) == <<x>>

Get(o) == o[1]

\* most lines of arbitrary kind in the text of the suggestion agent
MaxLines == 3

\* most lines of acceptable length in the text of the suggestion agent
MaxGoodLines == 7

\* ---------------------------------------------------------------- strings
Alphabet == {"a", "@", " "}

Whitespace == {" "}

Letters == {"a", "b", "c", "e", "i", "l", "m", "n", "o", "t"}

NotAnEmail == <<"n", "o", "t", "-", "a", "n", "-", "e", "m", "a", "i", "l">>

ABCom == <<"a", "@", "b", ".", "c", "o", "m">>

LeadingSpaceABCom == <<" ">> \o ABCom

TrailingSpaceABCom == ABCom \o <<" ">>

ShortTld == <<"a", "@", "b", ".", "c">>

DoubleAt == <<"a", "@", "@", "b", ".", "c", "o">>

EmailStrings ==
    UNION {[1..k -> Alphabet] : k \in 0..MaxLen}
        \cup {NotAnEmail, ABCom, LeadingSpaceABCom, TrailingSpaceABCom, ShortTld, DoubleAt}

\* [^\s@]+ : a non-empty run of characters that are neither whitespace nor '@'
NoSpaceNoAt(s) ==
    /\ Len(s) > 0
    /\ \A i \in 1..Len(s) : s[i] \notin Whitespace \cup {"@"}

\* a test that only looks for an "@"
emailRegex_test_anyAt(s) == \E i \in 1..Len(s) : s[i] = "@"

\* /^[^\s@]+@[^\s@]+\.[^\s@]+$/.test(s)
emailRegex_test(s) ==
    \E i \in 1..Len(s) : \E j \in 1..Len(s) :
        /\ i < j
        /\ s[i] = "@"
        /\ s[j] = "."
        /\ NoSpaceNoAt(SubSeq(s, 1, i - 1))
        /\ NoSpaceNoAt(SubSeq(s, i + 1, j - 1))
        /\ NoSpaceNoAt(SubSeq(s, j + 1, Len(s)))

RECURSIVE trimStart(_)
trimStart(s) ==
    IF Len(s) > 0 /\ s[1] \in Whitespace THEN trimStart(Tail(s)) ELSE s

RECURSIVE trimEnd(_)
trimEnd(s) ==
    IF Len(s) > 0 /\ s[Len(s)] \in Whitespace THEN trimEnd(SubSeq(s, 1, Len(s) - 1)) ELSE s

\* String.prototype.trim
trim(s) == trimEnd(trimStart(s))

\* z.string().email(): one '@', a local part of letters, '-' and '.' that
\* neither starts nor ends with '.', no two consecutive dots, a domain of
\* dot-separated labels that start with a letter, and a top-level label of at
\* least two letters.
z_string_email(s) ==
    \E i \in 1..Len(s) :
        /\ s[i] = "@"
        /\ \A k \in 1..Len(s) : k # i => s[k] \in Letters \cup {"-", "."}
        /\ \A k \in 1..(Len(s) - 1) : ~(s[k] = "." /\ s[k + 1] = ".")
        /\ i > 1
        /\ s[1] # "."
        /\ s[i - 1] # "."
        /\ i < Len(s)
        /\ s[i + 1] \in Letters
        /\ \A k \in (i + 1)..(Len(s) - 1) : s[k] = "." => s[k + 1] \in Letters
        /\ \E j \in (i + 2)..(Len(s) - 2) :
              /\ s[j] = "."
              /\ \A k \in (j + 1)..Len(s) : s[k] \in Letters

\* ------------------------------------------------------- step definitions
DefaultEmailMessage == "Please provide your email address so we can get back to you."

Suspended(payload) == [kind |-> "suspend", suspendPayload |-> Some(payload), output |-> Absent]

Completed(output) == [kind |-> "done", suspendPayload |-> Absent, output |-> Some(output)]

\* resumeData ?? {} followed by the destructuring of one field
resumeField_email(resumeData) ==
    IF resumeData = Absent THEN Absent ELSE Get(resumeData).email

resumeField_selectedOptionId(resumeData) ==
    IF resumeData = Absent THEN Absent ELSE Get(resumeData).selectedOptionId

\* !v for an optional string made of characters: undefined or ''
Falsy(o) == o = Absent \/ Len(Get(o)) = 0

\* !v for an optional TLA+ string: undefined or ''
FalsyId(o) == o = Absent \/ Get(o) = ""

requestEmailStep_execute(inputData, resumeData) ==
    LET message == IF inputData.message = Absent THEN DefaultEmailMessage
                   ELSE Get(inputData.message)
        email == resumeField_email(resumeData)
    IN  IF Falsy(email)
        THEN Suspended([message |-> message, reason |-> "Email required"])
        ELSE IF ~emailRegex_test(Get(email))
        THEN Suspended([message |-> "Please enter a valid email address.",
                        reason |-> "Invalid email format"])
        ELSE Completed([email |-> trim(Get(email)), submitted |-> TRUE])

\* find that keeps the last match instead of the first
find_last(options, id) ==
    IF \E i \in 1..Len(options) : options[i].id = id
    THEN CHOOSE i \in 1..Len(options) :
            /\ options[i].id = id
            /\ \A k \in (i + 1)..Len(options) : options[k].id # id
    ELSE 0

\* options.find((opt) => opt.id === id): index of the first match, 0 if none
find(options, id) ==
    IF \E i \in 1..Len(options) : options[i].id = id
    THEN CHOOSE i \in 1..Len(options) :
            /\ options[i].id = id
            /\ \A k \in 1..(i - 1) : options[k].id # id
    ELSE 0

\* the step without the return in front of its second suspend: it goes on to
\* hand back the first option
multipleChoiceStep_execute_fallthrough(inputData, resumeData) ==
    LET question == inputData.question
        options == inputData.options
        selectedOptionId == resumeField_selectedOptionId(resumeData)
    IN  IF FalsyId(selectedOptionId)
        THEN Suspended([question |-> question, options |-> options,
                        reason |-> "User selection required"])
        ELSE LET k == find(options, Get(selectedOptionId))
             IN  IF k = 0
                 THEN [kind |-> "suspend",
                       suspendPayload |-> Some([question |-> question, options |-> options,
                                                reason |-> "Invalid option selected"]),
                       output |-> Some([selectedOptionId |-> options[1].id,
                                        selectedOptionLabel |-> options[1].label,
                                        submitted |-> TRUE])]
                 ELSE Completed([selectedOptionId |-> options[k].id,
                                 selectedOptionLabel |-> options[k].label,
                                 submitted |-> TRUE])

multipleChoiceStep_execute(inputData, resumeData) ==
    LET question == inputData.question
        options == inputData.options
        selectedOptionId == resumeField_selectedOptionId(resumeData)
    IN  IF FalsyId(selectedOptionId)
        THEN Suspended([question |-> question, options |-> options,
                        reason |-> "User selection required"])
        ELSE LET k == find(options, Get(selectedOptionId))
             IN  IF k = 0
                 THEN Suspended([question |-> question, options |-> options,
                                 reason |-> "Invalid option selected"])
                 ELSE Completed([selectedOptionId |-> options[k].id,
                                 selectedOptionLabel |-> options[k].label,
                                 submitted |-> TRUE])

\* ---------------------------------------------------- workflow definitions
EmailWorkflow == "requestEmailWorkflow"

ChoiceWorkflow == "multipleChoiceWorkflow"

HitlWorkflows == {EmailWorkflow, ChoiceWorkflow}

\* the single step of each workflow
stepOf(wf) == IF wf = EmailWorkflow THEN "request-email-step" ELSE "multiple-choice-step"

execute(wf, inputData, resumeData) ==
    IF wf = EmailWorkflow
    THEN requestEmailStep_execute(inputData, resumeData)
    ELSE multipleChoiceStep_execute(inputData, resumeData)

\* resumeSchema: z.object({ email: z.string().email() })
requestEmailStep_resumeSchema(rd) == rd.email # Absent /\ z_string_email(Get(rd.email))

\* resumeSchema: z.object({ selectedOptionId: z.string() })
multipleChoiceStep_resumeSchema(rd) == rd.selectedOptionId # Absent

\* resumeSchema of the step of wf
resumeSchema(wf, rd) ==
    IF wf = EmailWorkflow
    THEN requestEmailStep_resumeSchema(rd)
    ELSE multipleChoiceStep_resumeSchema(rd)

\* ------------------------------------------------------------------ engine
\* The run store and the createRun / start / resume contract of the workflow
\* engine.  A resume is two steps of the engine: the status check together
\* with the switch to running, and the execution of the step.
RunIds == 1..MaxRuns

StepIds == {"request-email-step", "multiple-choice-step", "unknown-step"}

NewRun(wf) ==
    [wf |-> wf, status |-> "running", started |-> FALSE, currentStepId |-> stepOf(wf),
     inputData |-> Absent, resumeData |-> Absent, suspendPayload |-> Absent,
     result |-> Absent]

\* createRun({runId}): a handle on the run of that id, allocated if new
createRun(st, wf, runId) ==
    IF runId \in DOMAIN st THEN st ELSE st @@ (runId :> NewRun(wf))

\* inputSchema of the workflow: options has at least two entries
inputSchema(wf, inputData) ==
    IF wf = EmailWorkflow THEN TRUE ELSE Len(inputData.options) >= 2

\* the run record after its step returned outcome
recordOutcome(run, outcome) ==
    [run EXCEPT !.status = IF outcome.kind = "suspend" THEN "suspended" ELSE "completed",
                !.suspendPayload = outcome.suspendPayload,
                !.result = outcome.output,
                !.resumeData = Absent]

startError(st, runId, inputData) ==
    IF runId \notin DOMAIN st THEN "NotFoundError"
    ELSE IF st[runId].status # "running" \/ st[runId].started THEN "StateError"
    ELSE IF ~inputSchema(st[runId].wf, inputData) THEN "ValidationError"
    ELSE "none"

\* run.start({inputData}) on a run that passed startError
start(st, runId, inputData) ==
    LET run == [st[runId] EXCEPT !.started = TRUE, !.inputData = Some(inputData)]
    IN  [st EXCEPT ![runId] = recordOutcome(run, execute(run.wf, inputData, Absent))]

\* resume that does not compare the step with currentStepId
resumeError_anyStep(st, runId, step, resumeData) ==
    IF runId \notin DOMAIN st THEN "NotFoundError"
    ELSE IF st[runId].status # "suspended" THEN "StateError"
    ELSE IF ~resumeSchema(st[runId].wf, resumeData) THEN "ValidationError"
    ELSE "none"

\* resume that takes a run up whenever it has been started
resumeError_anyStatus(st, runId, step, resumeData) ==
    IF runId \notin DOMAIN st THEN "NotFoundError"
    ELSE IF ~st[runId].started THEN "StateError"
    ELSE IF st[runId].currentStepId # step THEN "StateError"
    ELSE IF ~resumeSchema(st[runId].wf, resumeData) THEN "ValidationError"
    ELSE "none"

resumeError(st, runId, step, resumeData) ==
    IF runId \notin DOMAIN st THEN "NotFoundError"
    ELSE IF st[runId].status # "suspended" THEN "StateError"
    ELSE IF st[runId].currentStepId # step THEN "StateError"
    ELSE IF ~resumeSchema(st[runId].wf, resumeData) THEN "ValidationError"
    ELSE "none"

\* first half of run.resume: suspended -> running, the payload is dropped
resumeBegin(st, runId, resumeData) ==
    [st EXCEPT ![runId] = [@ EXCEPT !.status = "running", !.suspendPayload = Absent,
                                    !.resumeData = Some(resumeData)]]

\* second half of run.resume: the step runs on the original inputData
resumeStep(st, runId) ==
    LET run == st[runId]
    IN  [st EXCEPT ![runId] =
            recordOutcome(run, execute(run.wf, Get(run.inputData), run.resumeData))]

\* run.resume({step, resumeData}) from the check to the result of the step
resume(st, runId, step, resumeData) ==
    LET err == resumeError(st, runId, step, resumeData)
    IN  [error |-> err,
         store |-> IF err = "none"
                   THEN resumeStep(resumeBegin(st, runId, resumeData), runId)
                   ELSE st]

\* what start and resume hand back to their caller
RunResult(run) ==
    [status |-> IF run.status = "completed" THEN "success" ELSE run.status,
     suspended |-> IF run.status = "suspended" THEN <<run.currentStepId>> ELSE <<>>,
     suspendPayload |-> run.suspendPayload,
     result |-> run.result]

\* ------------------------------------------------------------------ inputs
EmailInputs ==
    {[message |-> m, chatId |-> Absent] : m \in {Absent, Some("We need your email.")}}

InfantToddler == <<[id |-> "a", label |-> "Infant"], [id |-> "b", label |-> "Toddler"]>>

DuplicateIds == <<[id |-> "a", label |-> "Infant"], [id |-> "a", label |-> "Toddler"]>>

EmptyId == <<[id |-> "", label |-> "Infant"], [id |-> "b", label |-> "Toddler"]>>

OneOption == <<[id |-> "a", label |-> "Infant"]>>

\* option lists that pass the input schema
OptionLists == {InfantToddler, DuplicateIds, EmptyId}

ChoiceInputs ==
    {[question |-> "Which age group?", options |-> o, chatId |-> Absent] :
        o \in OptionLists \cup {OneOption}}

SelectedIds == {"a", "b", "z", ""}

ResumeDatas ==
    {[email |-> e, selectedOptionId |-> Absent] :
        e \in {Absent} \cup {Some(s) : s \in EmailStrings}}
    \cup {[email |-> Absent, selectedOptionId |-> Some(i)] : i \in SelectedIds}

\* ---------------------------------------------------------- Mastra instance
\* the keys under which workflows are registered: workflows: { suggestionWorkflow }
mastra_workflows == {"suggestionWorkflow"}

\* mastra.getWorkflow(key) finds a workflow
getWorkflow(key) == key \in mastra_workflows

\* -------------------------------------------------------------- run ids
\* String(n) for a natural number n
RECURSIVE numberToString(_)
numberToString(n) ==
    LET digit == <<"0", "1", "2", "3", "4", "5", "6", "7", "8", "9">>[(n % 10) + 1]
    IN  IF n < 10 THEN <<digit>> ELSE numberToString(n \div 10) \o <<digit>>

\* s.substring(k)
substring(s, k) == SubSeq(s, k + 1, Len(s))

\* Math.random().toString(36): "0", or "0." and a fraction in base 36
RandomTexts ==
    {<<"0">>} \cup
    {<<"0", ".">> \o f : f \in UNION {[1..k -> {"0", "z"}] : k \in 1..MaxFrac}}

\* the template that ignores the prefix and the clock
generateRunId_suffixOnly(now, random) == substring(random, 7)

\* `run_${Date.now()}_${Math.random().toString(36).substring(7)}`
generateRunId(now, random) ==
    <<"r", "u", "n", "_">> \o numberToString(now) \o <<"_">> \o substring(random, 7)

\* run.id as createRun reports it: undefined, not a string, or a string
ReportedIds ==
    {[type |-> "undefined", text |-> <<>>], [type |-> "number", text |-> <<>>]}
    \cup {[type |-> "string", text |-> t] :
            t \in UNION {[1..k -> {"x", " "}] : k \in 0..MaxIdLen}}

\* (run.id && typeof run.id === 'string' && run.id.trim() !== '') ? run.id : generatedRunId
resolveRunId(id, generated) ==
    IF id.type = "string" /\ id.text # <<>> /\ trim(id.text) # <<>>
    THEN id.text
    ELSE generated

\* !workflowRunId || typeof workflowRunId !== 'string' || workflowRunId.trim() === ''
invalidRunId(w) == w = <<>> \/ trim(w) = <<>>

\* ---------------------------------------------------------------- retrieval
\* the keys read from the fields and metadata containers of a hit;
\* a key the container lacks is Absent
NoContainer == [text |-> Absent, content |-> Absent, excerpt |-> Absent, title |-> Absent]

\* x || y || ... || dflt over values that are undefined, '' or a non-empty string
RECURSIVE firstTruthy(_, _)
firstTruthy(values, dflt) ==
    IF values = <<>> THEN dflt
    ELSE IF Head(values) # Absent /\ Get(Head(values)) # ""
    THEN Get(Head(values))
    ELSE firstTruthy(Tail(values), dflt)

\* hit.fields || {}
fieldsOf(hit) == IF hit.fields = Absent THEN NoContainer ELSE Get(hit.fields)

\* hit.metadata || {}
metadataOf(hit) == IF hit.metadata = Absent THEN NoContainer ELSE Get(hit.metadata)

\* String(fields.text || fields.content || fields.excerpt ||
\*        metadata.excerpt || metadata.content || metadata.text || '')
hitContent(hit) ==
    firstTruthy(<<fieldsOf(hit).text, fieldsOf(hit).content, fieldsOf(hit).excerpt,
                  metadataOf(hit).excerpt, metadataOf(hit).content, metadataOf(hit).text>>,
                "")

\* String(metadata.title || fields.title || 'Untitled')
hitTitle(hit) == firstTruthy(<<metadataOf(hit).title, fieldsOf(hit).title>>, "Untitled")

\* { ...fields, ...metadata }
mergeContainers(fields, metadata) ==
    [k \in DOMAIN NoContainer |-> IF metadata[k] # Absent THEN metadata[k] ELSE fields[k]]

\* String(fields.text || fields.content || fields.excerpt || '')
keywordHitContent(hit) ==
    firstTruthy(<<fieldsOf(hit).text, fieldsOf(hit).content, fieldsOf(hit).excerpt>>, "")

\* String(fields.title || 'Untitled')
keywordHitTitle(hit) == firstTruthy(<<fieldsOf(hit).title>>, "Untitled")

\* an empty result whose two flags agree
EmptySearchResult_flagsAgree ==
    [context |-> <<>>, results |-> <<>>, resultCount |-> 0,
     hasResults |-> FALSE, isNoMatch |-> FALSE]

\* the result of a search over no hits; context '' is the empty list of blocks
EmptySearchResult ==
    [context |-> <<>>, results |-> <<>>, resultCount |-> 0,
     hasResults |-> FALSE, isNoMatch |-> TRUE]

vectorMetadata(hit) == mergeContainers(fieldsOf(hit), metadataOf(hit))

keywordMetadata(hit) == fieldsOf(hit)

\* the result vectorSearchTool and performAutoVectorSearch build from hits:
\* one context block and one normalized record per hit
vectorSearchResult(hits) ==
    [context |-> [k \in 1..Len(hits) |->
                    [title |-> hitTitle(hits[k]), id |-> hits[k]._id,
                     score |-> hits[k]._score, content |-> hitContent(hits[k])]],
     results |-> [k \in 1..Len(hits) |->
                    [id |-> hits[k]._id, score |-> hits[k]._score,
                     content |-> hitContent(hits[k]),
                     metadata |-> vectorMetadata(hits[k])]],
     resultCount |-> Len(hits),
     hasResults |-> Len(hits) > 0,
     isNoMatch |-> ~(Len(hits) > 0)]

\* the result keywordSearchTool builds from hits
keywordSearchResult(hits) ==
    [context |-> [k \in 1..Len(hits) |->
                    [title |-> keywordHitTitle(hits[k]), id |-> hits[k]._id,
                     score |-> hits[k]._score, content |-> keywordHitContent(hits[k])]],
     results |-> [k \in 1..Len(hits) |->
                    [id |-> hits[k]._id, score |-> hits[k]._score,
                     content |-> keywordHitContent(hits[k]),
                     metadata |-> keywordMetadata(hits[k])]],
     resultCount |-> Len(hits),
     hasResults |-> Len(hits) > 0,
     isNoMatch |-> ~(Len(hits) > 0)]

\* what a search call came to: thrown or returned, and the searchRecords calls made
SearchThrew(calls) == [threw |-> TRUE, result |-> Absent, calls |-> calls]

SearchReturned(res, calls) == [threw |-> FALSE, result |-> Some(res), calls |-> calls]

\* vectorSearchTool.execute({query}); apiKey: PINECONE_API_KEY is set;
\* backend: how getPineconeIndex and searchRecords behave
vectorSearchTool_execute(query, apiKey, backend) ==
    IF ~apiKey THEN SearchThrew(0)
    ELSE IF query = <<>> \/ trim(query) = <<>> THEN SearchReturned(EmptySearchResult, 0)
    ELSE IF backend.index = "throws" THEN SearchThrew(0)
    ELSE LET hits == IF backend.search = "throws" THEN <<>> ELSE backend.hits
         IN  SearchReturned(vectorSearchResult(hits), 1)

\* keywordSearchTool.execute({query})
keywordSearchTool_execute(query, apiKey, backend) ==
    IF ~apiKey THEN SearchThrew(0)
    ELSE IF query = <<>> \/ trim(query) = <<>> THEN SearchReturned(EmptySearchResult, 0)
    ELSE IF backend.index = "throws" THEN SearchThrew(0)
    ELSE IF backend.search = "throws" THEN SearchThrew(1)
    ELSE SearchReturned(keywordSearchResult(backend.hits), 1)

\* performAutoVectorSearch(userMessage, namespace, topK)
performAutoVectorSearch(userMessage, apiKey, backend) ==
    IF ~apiKey THEN SearchThrew(0)
    ELSE IF userMessage = <<>> \/ trim(userMessage) = <<>>
    THEN SearchReturned(EmptySearchResult, 0)
    ELSE IF backend.index = "throws" THEN SearchThrew(0)
    ELSE IF backend.search = "throws" THEN SearchThrew(1)
    ELSE SearchReturned(vectorSearchResult(backend.hits), 1)

\* the values a key of a container takes: missing, '', or the text named
Values(text) == {Absent, Some(""), Some(text)}

\* hits that carry every combination of the six content keys
PrecedenceHits ==
    {[_id |-> "doc-1", _score |-> 1,
      fields |-> Some([text |-> ft, content |-> fc, excerpt |-> fe, title |-> Absent]),
      metadata |-> Some([text |-> mt, content |-> mc, excerpt |-> me, title |-> Absent])] :
        ft \in Values("X"), fc \in Values("fields.content"),
        fe \in Values("fields.excerpt"), mt \in Values("metadata.text"),
        mc \in Values("Y"), me \in Values("metadata.excerpt")}

\* a record of the Records API and a vector of the Vector API
RecordHit ==
    [_id |-> "doc-1", _score |-> 2,
     fields |-> Some([text |-> Some("X"), content |-> Absent, excerpt |-> Absent,
                      title |-> Some("Hours")]),
     metadata |-> Absent]

VectorHit ==
    [_id |-> "doc-2", _score |-> 1,
     fields |-> Absent,
     metadata |-> Some([text |-> Absent, content |-> Some("Y"), excerpt |-> Absent,
                        title |-> Absent])]

\* hits that carry every combination of the two title keys
TitleHits ==
    {[_id |-> "doc-3", _score |-> 1,
      fields |-> Some([text |-> Some("X"), content |-> Absent, excerpt |-> Absent,
                       title |-> ft]),
      metadata |-> Some([text |-> Absent, content |-> Absent, excerpt |-> Absent,
                         title |-> mt])] :
        ft \in Values("fields.title"), mt \in Values("metadata.title")}

HitLists ==
    UNION {[1..k -> {RecordHit, VectorHit}] : k \in 0..MaxHits}
        \cup {<<h>> : h \in PrecedenceHits} \cup {<<h>> : h \in TitleHits}

Backends ==
    {[index |-> "throws", search |-> "ok", hits |-> <<>>],
     [index |-> "ok", search |-> "throws", hits |-> <<>>]}
    \cup {[index |-> "ok", search |-> "ok", hits |-> h] : h \in HitLists}

Queries == UNION {[1..k -> {"q", " "}] : k \in 0..MaxQueryLen}

\* ------------------------------------------------------------------- tools
\* a tool result; fields the tool does not set are Absent
NoResult ==
    [workflowRunId |-> Absent, suspended |-> Absent, suspendPayload |-> Absent,
     output |-> Absent, escalated |-> Absent, message |-> Absent,
     requiresEmail |-> Absent, reason |-> Absent, question |-> Absent]

\* a failure swallowed into a result with no field set
Threw_partial(st) == [threw |-> FALSE, result |-> Some(NoResult), store |-> st]

\* the catch block of a bridge tool: the error is thrown on
Threw(st) == [threw |-> TRUE, result |-> Absent, store |-> st]

Returned(st, res) == [threw |-> FALSE, result |-> Some(res), store |-> st]

\* requestEmailTool.execute(input); generatedRunId is the freshly generated id
requestEmailTool_execute(st, input, generatedRunId) ==
    IF ~getWorkflow(EmailWorkflow) THEN Threw(st)
    ELSE
    LET st1 == createRun(st, EmailWorkflow, generatedRunId)
        workflowRunId == generatedRunId
        inputData == [message |-> input.message, chatId |-> input.chatId]
    IN  IF startError(st1, workflowRunId, inputData) # "none" THEN Threw(st1)
        ELSE
        LET st2 == start(st1, workflowRunId, inputData)
            result == RunResult(st2[workflowRunId])
        IN  IF result.status = "suspended" /\ Len(result.suspended) > 0
            THEN Returned(st2, [NoResult EXCEPT !.workflowRunId = Some(workflowRunId),
                                                !.suspended = Some(TRUE),
                                                !.suspendPayload = result.suspendPayload])
            ELSE IF result.status = "success" /\ result.result # Absent
            THEN Returned(st2, [NoResult EXCEPT !.workflowRunId = Some(workflowRunId),
                                                !.suspended = Some(FALSE),
                                                !.output = result.result])
            ELSE Returned(st2, [NoResult EXCEPT !.workflowRunId = Some(workflowRunId),
                                                !.suspended = Some(FALSE)])

\* multipleChoiceTool.execute(input)
multipleChoiceTool_execute(st, input, generatedRunId) ==
    IF ~getWorkflow(ChoiceWorkflow) THEN Threw(st)
    ELSE
    LET st1 == createRun(st, ChoiceWorkflow, generatedRunId)
        workflowRunId == generatedRunId
        inputData == [question |-> input.question, options |-> input.options,
                      chatId |-> input.chatId]
    IN  IF startError(st1, workflowRunId, inputData) # "none" THEN Threw(st1)
        ELSE
        LET st2 == start(st1, workflowRunId, inputData)
            result == RunResult(st2[workflowRunId])
        IN  IF result.status = "suspended"
            THEN IF Len(result.suspended) > 0
                 THEN Returned(st2, [NoResult EXCEPT
                        !.workflowRunId = Some(workflowRunId),
                        !.suspended = Some(TRUE),
                        \* the payload's fields are non-empty, so each || keeps them
                        !.suspendPayload = result.suspendPayload])
                 ELSE Returned(st2, [NoResult EXCEPT !.workflowRunId = Some(workflowRunId),
                                                     !.suspended = Some(TRUE)])
            ELSE IF result.status = "success" /\ result.result # Absent
            THEN Returned(st2, [NoResult EXCEPT !.workflowRunId = Some(workflowRunId),
                                                !.suspended = Some(FALSE),
                                                !.output = result.result])
            ELSE Returned(st2, [NoResult EXCEPT !.workflowRunId = Some(workflowRunId),
                                                !.suspended = Some(FALSE)])

EmergencyMessage == "For medical emergencies, please call 911 immediately. I've also notified our staff to follow up with you."

NoMatchMessage == "I don't have information about that in our knowledge base. Let me connect you with someone who can help. Please provide your email address so we can get back to you."

UserRequestMessage == "I'd be happy to connect you with a staff member. Please provide your email address so we can get back to you."

LowConfidenceMessage == "I want to make sure you get the most accurate information. Let me connect you with someone who can help. Please provide your email address so we can get back to you."

Reasons == {"no_results", "low_confidence", "user_request", "sensitive", "emergency"}

\* searchResultsCount = 0 as the default of an omitted count
countOf(input) ==
    IF input.searchResultsCount = Absent THEN 0 ELSE Get(input.searchResultsCount)

\* a no-match test that looks at the reason alone
isNoMatch_reasonOnly(input) == input.reason = "no_results"

\* reason === 'no_results' || searchResultsCount === 0
isNoMatch(input) == input.reason = "no_results" \/ countOf(input) = 0

escalationMessage(input) ==
    IF isNoMatch(input) THEN NoMatchMessage
    ELSE IF input.reason = "user_request" THEN UserRequestMessage
    ELSE LowConfidenceMessage

\* escalateTool.execute whose catch block rethrows, as the bridge tools' does
escalateTool_execute_rethrow(st, input, generatedRunId) ==
    LET annotated == [NoResult EXCEPT !.escalated = Some(TRUE),
                                      !.requiresEmail = Some(TRUE),
                                      !.reason = Some(input.reason),
                                      !.question = Some(input.question)]
    IN  IF input.reason = "emergency"
        THEN Returned(st, [annotated EXCEPT !.message = Some(EmergencyMessage),
                                            !.requiresEmail = Some(FALSE)])
        ELSE IF ~getWorkflow(EmailWorkflow) THEN Threw(st)
        ELSE
        LET st1 == createRun(st, EmailWorkflow, generatedRunId)
            inputData == [message |-> Some(escalationMessage(input)),
                          chatId |-> input.chatId]
        IN  IF startError(st1, generatedRunId, inputData) # "none" THEN Threw(st1)
            ELSE
            LET st2 == start(st1, generatedRunId, inputData)
                result == RunResult(st2[generatedRunId])
            IN  IF result.status = "suspended" /\ Len(result.suspended) > 0
                THEN Returned(st2, [annotated EXCEPT
                        !.workflowRunId = Some(generatedRunId),
                        !.suspended = Some(TRUE),
                        !.suspendPayload = result.suspendPayload])
                ELSE Returned(st2, [annotated EXCEPT
                        !.workflowRunId = Some(generatedRunId),
                        !.suspended = Some(FALSE)])

\* escalateTool.execute(input) of the tool that drives the email workflow
escalateTool_execute(st, input, generatedRunId) ==
    LET requiresEmail == input.reason # "emergency"
        annotated == [NoResult EXCEPT !.escalated = Some(TRUE),
                                      !.requiresEmail = Some(TRUE),
                                      !.reason = Some(input.reason),
                                      !.question = Some(input.question)]
        fallback == [annotated EXCEPT !.message = Some(escalationMessage(input))]
    IN  IF ~requiresEmail
        THEN Returned(st, [NoResult EXCEPT !.escalated = Some(TRUE),
                                           !.message = Some(EmergencyMessage),
                                           !.requiresEmail = Some(FALSE),
                                           !.reason = Some(input.reason),
                                           !.question = Some(input.question)])
        ELSE IF ~getWorkflow(EmailWorkflow) THEN Returned(st, fallback)
        ELSE
        LET st1 == createRun(st, EmailWorkflow, generatedRunId)
            workflowRunId == generatedRunId
            inputData == [message |-> Some(escalationMessage(input)),
                          chatId |-> input.chatId]
        IN  IF startError(st1, workflowRunId, inputData) # "none"
            THEN Returned(st1, fallback)
            ELSE
            LET st2 == start(st1, workflowRunId, inputData)
                result == RunResult(st2[workflowRunId])
            IN  IF result.status = "suspended" /\ Len(result.suspended) > 0
                THEN Returned(st2, [annotated EXCEPT
                        !.workflowRunId = Some(workflowRunId),
                        !.suspended = Some(TRUE),
                        !.suspendPayload = result.suspendPayload])
                ELSE Returned(st2, [annotated EXCEPT
                        !.workflowRunId = Some(workflowRunId),
                        !.suspended = Some(FALSE)])

\* escalateTool.execute(input) of the tool that only composes a message
escalateTool_message_execute(st, input) ==
    LET message == IF input.reason = "emergency" THEN EmergencyMessage
                   ELSE escalationMessage(input)
    IN  Returned(st, [NoResult EXCEPT !.escalated = Some(TRUE),
                                      !.message = Some(message),
                                      !.requiresEmail = Some(TRUE)])

EscalateInputs ==
    {[reason |-> r, question |-> "Is the center open on holidays?", chatId |-> c,
      searchResultsCount |-> n] :
        r \in Reasons, c \in {Absent, Some("chat-1")},
        n \in {Absent} \cup {Some(k) : k \in 0..MaxCount}}

EmailToolInputs ==
    {[message |-> m, chatId |-> c] :
        m \in {Absent, Some("We need your email.")}, c \in {Absent, Some("chat-1")}}

ChoiceToolInputs ==
    {[question |-> "Which age group?", options |-> o, chatId |-> c] :
        o \in OptionLists, c \in {Absent, Some("chat-1")}}

\* ------------------------------------------------------------ resume route
\* a response; fields the handler does not set are Absent
NoResponse ==
    [http |-> 0, error |-> Absent, status |-> Absent, output |-> Absent,
     suspended |-> Absent, suspendedSteps |-> Absent, escalationContext |-> Absent]

\* the catch block answering with the default status
ErrorResponse_ok(message) == [NoResponse EXCEPT !.http = 200, !.error = Some(message)]

\* the catch block: status 500 and the error's message
ErrorResponse(message) == [NoResponse EXCEPT !.http = 500, !.error = Some(message)]

\* the workflow key the handler derives from the step id
workflowForStep(step) ==
    IF step = "request-email-step" THEN EmailWorkflow
    ELSE IF step = "multiple-choice-step" THEN ChoiceWorkflow
    ELSE EmailWorkflow

\* (result.result as { email?: string })?.email
emailOf(result) ==
    IF result = Absent THEN Absent
    ELSE IF "email" \in DOMAIN Get(result) THEN Some(Get(result).email)
    ELSE Absent

\* a handler that answers a failed resume as if nothing had gone wrong
handleWorkflowResume_swallow(st, body) ==
    [store |-> st, response |-> [NoResponse EXCEPT !.http = 200]]

\* handleWorkflowResume(req); body is Absent when it cannot be extracted or parsed
handleWorkflowResume(st, body) ==
    IF body = Absent
    THEN [store |-> st, response |-> ErrorResponse("Invalid request body")]
    ELSE
    LET parsed == Get(body)
        workflow == workflowForStep(parsed.step)
    IN  IF ~getWorkflow(workflow)
        THEN [store |-> st, response |-> ErrorResponse("Workflow not found")]
        ELSE
        LET st1 == createRun(st, workflow, parsed.workflowRunId)
            resumed == resume(st1, parsed.workflowRunId, parsed.step, parsed.resumeData)
        IN  IF resumed.error # "none"
            THEN [store |-> st1, response |-> ErrorResponse(resumed.error)]
            ELSE
            LET st2 == resumed.store
                result == RunResult(st2[parsed.workflowRunId])
                email == emailOf(result.result)
            IN  IF result.status = "success" /\ parsed.escalationContext # Absent
                   /\ ~Falsy(email)
                THEN [store |-> st2,
                      response |-> [NoResponse EXCEPT
                          !.http = 200,
                          !.status = Some(result.status),
                          !.output = result.result,
                          !.escalationContext =
                              Some([context |-> Get(parsed.escalationContext),
                                    email |-> Get(email)])]]
                ELSE [store |-> st2,
                      response |-> [NoResponse EXCEPT
                          !.http = 200,
                          !.status = Some(result.status),
                          !.output = IF result.status = "success" THEN result.result
                                     ELSE Absent,
                          !.suspended = Some(result.status = "suspended"),
                          !.suspendedSteps = IF result.status = "suspended"
                                             THEN Some(result.suspended) ELSE Absent]]

EscalationContexts ==
    {[reason |-> "no_results", question |-> "Is the center open on holidays?",
      chatId |-> "chat-1", searchResultsCount |-> 0]}

RouteResumeDatas ==
    {[email |-> e, selectedOptionId |-> Absent] :
        e \in {Absent, Some(ABCom), Some(NotAnEmail)}}
    \cup {[email |-> Absent, selectedOptionId |-> Some(i)] : i \in {"a", "z"}}

RouteBodies ==
    {Absent} \cup
    {Some([workflowRunId |-> r, step |-> s, resumeData |-> d, escalationContext |-> c]) :
        r \in RunIds, s \in StepIds, d \in RouteResumeDatas,
        c \in {Absent} \cup {Some(x) : x \in EscalationContexts}}

\* -------------------------------------------------------------- chat route
\* a message of the request body; text and parts are Absent when not given
UserText(t) == [role |-> "user", text |-> Some(t), parts |-> Absent]

UserParts(ps) == [role |-> "user", text |-> Absent, parts |-> Some(ps)]

AssistantText(t) == [role |-> "assistant", text |-> Some(t), parts |-> Absent]

TextPart(t) == [type |-> "text", text |-> Some(t)]

FilePart == [type |-> "file", text |-> Absent]

\* body.messages of the requests enumerated
MessageLists ==
    {<<>>,
     <<AssistantText(<<"q">>)>>,
     <<UserText(<<"q">>)>>,
     <<UserText(<<" ">>)>>,
     <<UserText(<<"q">>), AssistantText(<<"q">>)>>,
     <<UserText(<<"q">>), UserText(<<>>)>>,
     <<UserParts(<<TextPart(<<"q">>), FilePart, TextPart(<<"q">>)>>)>>,
     <<UserParts(<<TextPart(<<" ">>), TextPart(<<>>)>>)>>,
     <<UserParts(<<FilePart>>)>>}

\* messages.filter((msg) => msg.role === 'user').pop()
lastUserMessage(messages) ==
    LET users == SelectSeq(messages, LAMBDA m : m.role = "user")
    IN  IF users = <<>> THEN Absent ELSE Some(users[Len(users)])

\* texts.join(' ')
RECURSIVE join(_)
join(texts) ==
    IF texts = <<>> THEN <<>>
    ELSE IF Len(texts) = 1 THEN texts[1]
    ELSE texts[1] \o <<" ">> \o join(Tail(texts))

\* extractMessageText(message)
extractMessageText(message) ==
    IF message.text # Absent /\ Get(message.text) # <<>> THEN Get(message.text)
    ELSE IF message.parts # Absent
    THEN LET textParts == SelectSeq(Get(message.parts),
                                    LAMBDA part : /\ part.type = "text"
                                                  /\ part.text # Absent
                                                  /\ Get(part.text) # <<>>)
         IN  join([k \in 1..Len(textParts) |-> Get(textParts[k].text)])
    ELSE <<>>

\* the search results mapped to the sources of the event
normalizedSources(results) ==
    [k \in 1..Len(results) |->
        [id |-> results[k].id,
         title |-> firstTruthy(<<results[k].metadata.title>>, "Untitled Document"),
         score |-> results[k].score,
         content |-> results[k].content,
         filePath |-> Absent, url |-> Absent, description |-> Absent,
         metadata |-> results[k].metadata]]

\* the frame `data: {"type":"auto-rag-sources","sources":[...]}\n\n`
autoRagSourcesEvent(results) ==
    [type |-> "auto-rag-sources", sources |-> normalizedSources(results)]

\* the k-th chunk of the agent's response stream
Chunk(k) == [type |-> "chunk", index |-> k]

\* the agent's response: no body, or a stream of n chunks
Responses == {[body |-> FALSE, chunks |-> 0]} \cup {[body |-> TRUE, chunks |-> n] : n \in 0..MaxChunks}

\* lists of hits the backend answers a chat request's search with
ChatBackends ==
    {[index |-> "throws", search |-> "ok", hits |-> <<>>],
     [index |-> "ok", search |-> "throws", hits |-> <<>>]}
    \cup {[index |-> "ok", search |-> "ok", hits |-> h] :
            h \in UNION {[1..k -> {RecordHit, VectorHit}] : k \in 0..MaxHits}}

\* the wrap that is put on whenever a search returned
shouldWrap_anyResult(autoSearchResults, response) ==
    autoSearchResults # Absent /\ response.body

\* autoSearchResults && autoSearchResults.length > 0 && response.body
shouldWrap(autoSearchResults, response) ==
    autoSearchResults # Absent /\ Len(Get(autoSearchResults)) > 0 /\ response.body

\* controller.enqueue that puts the frame ahead of the frames not yet taken
enqueue_front(queue, frame) == <<frame>> \o queue

\* controller.enqueue(frame)
enqueue(queue, frame) == Append(queue, frame)

\* no request is being served
ChatIdle ==
    [pc |-> "idle", messages |-> <<>>, searched |-> "notRun", results |-> <<>>,
     data |-> [autoSearchPerformed |-> FALSE, resultCount |-> 0, autoSearchError |-> FALSE],
     agentCalls |-> 0, hasBody |-> FALSE, wrapped |-> FALSE, chunks |-> 0,
     todo |-> <<>>, src |-> <<>>, queue |-> <<>>, out |-> <<>>, closed |-> FALSE]

\* a catch block that throws the failure of the search on
catchAutoSearch_rethrow == "throw"

\* the catch block around the search: the failure is logged and recorded in
\* body.data.autoSearchError, and the handler goes on
catchAutoSearch == "continue"

\* the chat handler from the request to the response it returns: messages is
\* body.messages, response what the base chat route answers
chatHandler(messages, apiKey, backend, response) ==
    LET lastUser == lastUserMessage(messages)
        messageText == IF lastUser = Absent THEN <<>> ELSE extractMessageText(Get(lastUser))
        run == lastUser # Absent /\ Len(trim(messageText)) > 0
        search == performAutoVectorSearch(messageText, apiKey, backend)
        searched == IF ~run THEN "notRun" ELSE IF search.threw THEN "threw" ELSE "returned"
        autoSearchResults == IF searched = "returned"
                             THEN Some(Get(search.result).results) ELSE Absent
        wrap == shouldWrap(autoSearchResults, response)
    IN  IF searched = "threw" /\ catchAutoSearch = "throw"
        THEN [ChatIdle EXCEPT !.pc = "threw", !.messages = messages,
                              !.searched = searched]
        ELSE
        [pc |-> "streaming",
         messages |-> messages,
         searched |-> searched,
         results |-> IF autoSearchResults = Absent THEN <<>> ELSE Get(autoSearchResults),
         data |-> [autoSearchPerformed |-> searched = "returned",
                   resultCount |-> IF searched = "returned"
                                   THEN Get(search.result).resultCount ELSE 0,
                   autoSearchError |-> searched = "threw"],
         agentCalls |-> 1,
         hasBody |-> response.body,
         wrapped |-> wrap,
         chunks |-> response.chunks,
         todo |-> [k \in 1..response.chunks |-> Chunk(k)],
         src |-> <<>>,
         queue |-> IF wrap
                   THEN enqueue(<<>>, autoRagSourcesEvent(Get(autoSearchResults)))
                   ELSE <<>>,
         out |-> <<>>,
         closed |-> FALSE]

\* ------------------------------------------------------------- suggestions
Digits == {"1", "2"}

\* the character c, n times
Repeat(c, n) == [k \in 1..n |-> c]

\* lines.join('\n')
RECURSIVE joinLines(_)
joinLines(lines) ==
    IF lines = <<>> THEN <<>>
    ELSE IF Len(lines) = 1 THEN lines[1]
    ELSE lines[1] \o <<"\n">> \o joinLines(Tail(lines))

\* text.split('\n'): the pieces between the newlines, of which there is
\* always one more than there are newlines
split(text) ==
    LET breaks == {i \in 1..Len(text) : text[i] = "\n"}
        at(k) == IF k = 0 THEN 0
                 ELSE IF k = Cardinality(breaks) + 1 THEN Len(text) + 1
                 ELSE CHOOSE i \in breaks : Cardinality({j \in breaks : j < i}) = k - 1
    IN  [k \in 1..(Cardinality(breaks) + 1) |-> SubSeq(text, at(k - 1) + 1, at(k) - 1)]

\* s.match(/^\d+[\.\)]/)
matchesNumbering(s) ==
    \E k \in 1..(Len(s) - 1) :
        /\ \A j \in 1..k : s[j] \in Digits
        /\ s[k + 1] \in {".", ")"}

\* a length test that lets 10 and 200 through
reasonableLength_inclusive(s) == Len(s) >= 10 /\ Len(s) <= 200

\* s.length > 10 && s.length < 200
reasonableLength(s) == Len(s) > 10 /\ Len(s) < 200

\* array.slice(0, n)
slice(seq, n) == SubSeq(seq, 1, IF n < Len(seq) THEN n ELSE Len(seq))

\* a suggestion taken from the agent's text, and the k-th entry of the
\* fallbacks array
AgentLine(s) == [kind |-> "agent", line |-> s, index |-> 0]

Fallback(k) == [kind |-> "fallback", line |-> <<>>, index |-> k]

fallbacks == <<Fallback(1), Fallback(2), Fallback(3), Fallback(4)>>

\* the parsing of generateSuggestions.execute, from response.text to the
\* suggestions returned; text is Absent when response.text is undefined
generateSuggestions_parse(text) ==
    LET suggestionsText == IF text = Absent THEN <<>> ELSE Get(text)
        pieces == split(suggestionsText)
        trimmed == [k \in 1..Len(pieces) |-> trim(pieces[k])]
        unnumbered == SelectSeq(trimmed, LAMBDA l : Len(l) > 0 /\ ~matchesNumbering(l))
        reasonable == SelectSeq(unnumbered, LAMBDA l : reasonableLength(l))
        kept == slice(reasonable, 6)
        suggestions == [k \in 1..Len(kept) |-> AgentLine(kept[k])]
        filled == IF Len(suggestions) < 4
                  THEN suggestions \o slice(fallbacks, 4 - Len(suggestions))
                  ELSE suggestions
    IN  slice(filled, 6)

\* lines of acceptable length
GoodLines == {Repeat("a", 11), Repeat("b", 199)}

\* lines of every kind the parsing tells apart
AgentLines ==
    GoodLines
    \cup {<<>>, <<" ", " ">>,
          Repeat("c", 10), Repeat("c", 200),
          <<"1", ".", " ">> \o Repeat("d", 12),
          <<"1", "2", ")">> \o Repeat("d", 12),
          <<"1", " ">> \o Repeat("e", 12),
          <<" ">> \o Repeat("f", 11) \o <<" ">>,
          <<" ">> \o Repeat("g", 10) \o <<" ">>}

\* the lines of the texts the agent returns
AgentTexts ==
    UNION {[1..k -> AgentLines] : k \in 0..MaxLines}
        \cup UNION {[1..k -> GoodLines] : k \in 4..MaxGoodLines}

\* ------------------------------------------------------------------- state
\* store: the run store; last: the most recent call and what it gave back;
\* chat: the chat request being served and its response stream
VARIABLES store, last, chat

vars == <<store, last, chat>>

HasFreshId == \E r \in RunIds : r \notin DOMAIN store

\* the smallest run id not yet allocated stands for a freshly generated id
FreshId ==
    IF HasFreshId
    THEN CHOOSE r \in RunIds : r \notin DOMAIN store /\ \A q \in 1..(r - 1) : q \in DOMAIN store
    ELSE 0

Init ==
    /\ store = <<>>
    /\ chat = ChatIdle
    /\ last = [op |-> "none"]

\* workflow.createRun() on an exported workflow
CreateRun(wf) ==
    /\ HasFreshId
    /\ store' = createRun(store, wf, FreshId)
    /\ UNCHANGED chat
    /\ last' = [op |-> "createRun", runId |-> FreshId]

\* run.start({inputData})
Start(runId, inputData) ==
    LET err == startError(store, runId, inputData)
    IN  /\ store' = IF err = "none" THEN start(store, runId, inputData) ELSE store
        /\ UNCHANGED chat
        /\ last' = [op |-> "start", runId |-> runId, error |-> err]

\* run.resume({step, resumeData}) up to the switch to running
ResumeBegin(runId, step, resumeData) ==
    LET err == resumeError(store, runId, step, resumeData)
    IN  /\ store' = IF err = "none" THEN resumeBegin(store, runId, resumeData) ELSE store
        /\ UNCHANGED chat
        /\ last' = [op |-> "resume", runId |-> runId, step |-> step, error |-> err]

\* run.resume from the execution of the step to its result
ResumeStep(runId) ==
    /\ runId \in DOMAIN store
    /\ store[runId].status = "running"
    /\ store[runId].resumeData # Absent
    /\ store' = resumeStep(store, runId)
    /\ UNCHANGED chat
    /\ last' = [op |-> "resumed", runId |-> runId]

ToolCall(op, out) ==
    /\ store' = out.store
    /\ UNCHANGED chat
    /\ last' = [op |-> op, threw |-> out.threw, result |-> out.result]

RequestEmailTool(input) ==
    /\ getWorkflow(EmailWorkflow) => HasFreshId
    /\ ToolCall("requestEmailTool", requestEmailTool_execute(store, input, FreshId))

MultipleChoiceTool(input) ==
    /\ getWorkflow(ChoiceWorkflow) => HasFreshId
    /\ ToolCall("multipleChoiceTool", multipleChoiceTool_execute(store, input, FreshId))

EscalateTool(input) ==
    /\ (input.reason # "emergency" /\ getWorkflow(EmailWorkflow)) => HasFreshId
    /\ ToolCall("escalateTool", escalateTool_execute(store, input, FreshId))

EscalateToolMessage(input) ==
    ToolCall("escalateTool_message", escalateTool_message_execute(store, input))

HandleWorkflowResume(body) ==
    LET out == handleWorkflowResume(store, body)
    IN  /\ store' = out.store
        /\ UNCHANGED chat
        /\ last' = [op |-> "handleWorkflowResume",
                    runId |-> IF body = Absent THEN 0 ELSE Get(body).workflowRunId,
                    step |-> IF body = Absent THEN "" ELSE Get(body).step,
                    response |-> out.response]

Next ==
    \/ \E wf \in HitlWorkflows : CreateRun(wf)
    \/ \E r \in DOMAIN store : \E i \in EmailInputs :
          store[r].wf = EmailWorkflow /\ Start(r, i)
    \/ \E r \in DOMAIN store : \E i \in ChoiceInputs :
          store[r].wf = ChoiceWorkflow /\ Start(r, i)
    \/ \E r \in RunIds : \E s \in StepIds : \E d \in ResumeDatas : ResumeBegin(r, s, d)
    \/ \E r \in RunIds : ResumeStep(r)
    \/ \E i \in EmailToolInputs : RequestEmailTool(i)
    \/ \E i \in ChoiceToolInputs : MultipleChoiceTool(i)
    \/ \E i \in EscalateInputs : EscalateTool(i)
    \/ \E i \in EscalateInputs : EscalateToolMessage(i)
    \/ \E b \in RouteBodies : HandleWorkflowResume(b)

Spec == Init /\ [][Next]_vars

\* createRun has handed back a run whose id reads id; now and random are what
\* Date.now() and Math.random().toString(36) gave when the id was generated
InitRunId ==
    /\ store = <<>>
    /\ chat = ChatIdle
    /\ \E id \in ReportedIds : \E now \in 0..MaxNow : \E random \in RandomTexts :
          last = [op |-> "createRun", id |-> id, now |-> now, random |-> random]

\* the run id a tool settles on between createRun and start
ResolveRunId ==
    /\ last.op = "createRun"
    /\ LET generated == generateRunId(last.now, last.random)
           w == resolveRunId(last.id, generated)
       IN  last' = [op |-> "resolveRunId", id |-> last.id, generatedRunId |-> generated,
                    threw |-> invalidRunId(w), workflowRunId |-> w]
    /\ UNCHANGED <<store, chat>>

NextRunId == ResolveRunId

SpecRunId == InitRunId /\ [][NextRunId]_vars

\* a search is about to be made: the query, whether PINECONE_API_KEY is set,
\* and how the retrieval backend will behave
InitSearch ==
    /\ store = <<>>
    /\ chat = ChatIdle
    /\ \E q \in Queries : \E k \in BOOLEAN : \E b \in Backends :
          last = [op |-> "search", query |-> q, apiKey |-> k, backend |-> b]

SearchCall(op, out) ==
    /\ last.op = "search"
    /\ last' = [op |-> op, query |-> last.query, apiKey |-> last.apiKey,
                backend |-> last.backend, threw |-> out.threw, result |-> out.result,
                calls |-> out.calls]
    /\ UNCHANGED <<store, chat>>

VectorSearchTool ==
    SearchCall("vectorSearchTool",
               vectorSearchTool_execute(last.query, last.apiKey, last.backend))

KeywordSearchTool ==
    SearchCall("keywordSearchTool",
               keywordSearchTool_execute(last.query, last.apiKey, last.backend))

PerformAutoVectorSearch ==
    SearchCall("performAutoVectorSearch",
               performAutoVectorSearch(last.query, last.apiKey, last.backend))

NextSearch ==
    \/ VectorSearchTool
    \/ KeywordSearchTool
    \/ PerformAutoVectorSearch

SpecSearch == InitSearch /\ [][NextSearch]_vars

\* POST /chat: the handler runs up to the response it returns
ChatHandler(messages, apiKey, backend, response) ==
    /\ chat.pc = "idle"
    /\ chat' = chatHandler(messages, apiKey, backend, response)
    /\ UNCHANGED <<store, last>>

\* the agent puts its next chunk on its response stream
AgentEmit ==
    /\ chat.pc = "streaming"
    /\ chat.todo # <<>>
    /\ chat' = [chat EXCEPT !.todo = Tail(@), !.src = Append(@, Head(chat.todo))]
    /\ UNCHANGED <<store, last>>

\* a read that reports done whenever no chunk is waiting
readerDone_noneWaiting(c) == c.src = <<>>

\* reader.read() settles with done: the agent has put out every chunk and
\* every chunk has been read
readerDone(c) == c.src = <<>> /\ c.todo = <<>>

\* pump: reader.read() settles; the chunk is enqueued and the next read is
\* issued, or the wrapped stream is closed when the agent's stream is done
Pump ==
    /\ chat.pc = "streaming"
    /\ chat.wrapped
    /\ ~chat.closed
    /\ IF chat.src # <<>>
       THEN chat' = [chat EXCEPT !.src = Tail(@),
                                 !.queue = enqueue(@, Head(chat.src))]
       ELSE /\ readerDone(chat)
            /\ chat' = [chat EXCEPT !.closed = TRUE]
    /\ UNCHANGED <<store, last>>

\* the client takes the next frame of the response it was given
ConsumerRead ==
    /\ chat.pc = "streaming"
    /\ IF chat.wrapped
       THEN /\ chat.queue # <<>>
            /\ chat' = [chat EXCEPT !.queue = Tail(@), !.out = Append(@, Head(chat.queue))]
       ELSE /\ chat.src # <<>>
            /\ chat' = [chat EXCEPT !.src = Tail(@), !.out = Append(@, Head(chat.src))]
    /\ UNCHANGED <<store, last>>

NextChat ==
    \/ \E m \in MessageLists : \E k \in BOOLEAN : \E b \in ChatBackends :
          \E r \in Responses : ChatHandler(m, k, b, r)
    \/ AgentEmit
    \/ Pump
    \/ ConsumerRead

SpecChat == Init /\ [][NextChat]_vars

\* the agent's stream puts out its chunks and ends, and every read the pump
\* issues settles
SpecChatFair == SpecChat /\ WF_vars(AgentEmit) /\ WF_vars(Pump)

\* the suggestion agent has answered: lines are the lines of response.text,
\* hasText is false when response.text is undefined
InitSuggest ==
    /\ store = <<>>
    /\ chat = ChatIdle
    /\ \E lines \in AgentTexts : \E hasText \in BOOLEAN :
          /\ ~hasText => lines = <<>>
          /\ last = [op |-> "agentAnswered", lines |-> lines, hasText |-> hasText]

\* generateSuggestions.execute from the agent's answer on
GenerateSuggestions ==
    /\ last.op = "agentAnswered"
    /\ LET text == IF last.hasText THEN Some(joinLines(last.lines)) ELSE Absent
       IN  last' = [op |-> "generateSuggestions", lines |-> last.lines,
                    hasText |-> last.hasText,
                    suggestions |-> generateSuggestions_parse(text)]
    /\ UNCHANGED <<store, chat>>

NextSuggest == GenerateSuggestions

SpecSuggest == InitSuggest /\ [][NextSuggest]_vars

\* ------------------------------------------------------------------ claims
BridgeTools == {"requestEmailTool", "multipleChoiceTool"}

IsSuspendedShape(res) ==
    /\ res.workflowRunId # Absent
    /\ res.suspended = Some(TRUE)
    /\ res.suspendPayload # Absent
    /\ res.output = Absent

IsCompletedShape(res) ==
    /\ res.workflowRunId # Absent
    /\ res.suspended = Some(FALSE)
    /\ res.output # Absent
    /\ res.suspendPayload = Absent

\* C1: every call of requestEmailTool or multipleChoiceTool on a schema-valid
\* input gives back a result of exactly one of two shapes, suspended (with the
\* suspendPayload) or completed (with the output fields), and the suspended
\* flag is true exactly when the run it started is suspended.
C1_ToolResultShape ==
    last.op \in BridgeTools =>
        /\ ~last.threw
        /\ IsSuspendedShape(Get(last.result)) # IsCompletedShape(Get(last.result))
        /\ LET res == Get(last.result)
           IN  (res.suspended = Some(TRUE))
                   <=> (store[Get(res.workflowRunId)].status = "suspended")

IsSuspendedRun(st, r) == r \in DOMAIN st /\ st[r].status = "suspended"

\* C2: a resume of a run that is not suspended (running, completed, failed or
\* never started), through the engine or through the resume route, ends in
\* an error whatever the resumeData, and leaves every run as it was.
C2_ResumeNotSuspendedFails ==
    [][\A r \in RunIds :
          ~IsSuspendedRun(store, r) =>
              /\ (last'.op = "resume" /\ last'.runId = r)
                    => (last'.error # "none" /\ store' = store)
              /\ (last'.op = "handleWorkflowResume" /\ last'.runId = r)
                    => /\ last'.response.http # 200
                       /\ last'.response.error # Absent
                       /\ \A q \in DOMAIN store : q \in DOMAIN store' /\ store'[q] = store[q]
      ]_vars

\* reached: a resume of a completed run was rejected
C2_Witness ==
    /\ last.op = "resume"
    /\ last.error = "StateError"
    /\ last.runId \in DOMAIN store
    /\ store[last.runId].status = "completed"

\* C3: a resume whose step is not the run's currentStepId (an unknown step id
\* included) is rejected with an error and leaves the run's status,
\* suspendPayload and result unchanged.
C3_StepMismatchRejected ==
    [][\A r \in DOMAIN store :
          /\ (last'.op = "resume" /\ last'.runId = r /\ last'.step # store[r].currentStepId)
                => /\ last'.error # "none"
                   /\ r \in DOMAIN store'
                   /\ store'[r].status = store[r].status
                   /\ store'[r].suspendPayload = store[r].suspendPayload
                   /\ store'[r].result = store[r].result
          /\ (last'.op = "handleWorkflowResume" /\ last'.runId = r
                /\ last'.step # store[r].currentStepId)
                => /\ last'.response.http # 200
                   /\ last'.response.error # Absent
                   /\ r \in DOMAIN store'
                   /\ store'[r].status = store[r].status
                   /\ store'[r].suspendPayload = store[r].suspendPayload
                   /\ store'[r].result = store[r].result
      ]_vars

\* reached: a resume naming an unknown step was rejected on a suspended run
C3_Witness ==
    /\ last.op = "resume"
    /\ last.step = "unknown-step"
    /\ last.error = "StateError"
    /\ IsSuspendedRun(store, last.runId)

IsResuming(st, r) ==
    r \in DOMAIN st /\ st[r].status = "running" /\ st[r].resumeData # Absent

\* C4: while one resume of a run is between its status check and the result
\* of its step, a second resume of that run is rejected and changes nothing:
\* the resumeData in use is not replaced, and a result, once set, is never
\* set again.
C4_AtMostOneResumeApplied ==
    [][\A r \in DOMAIN store :
          /\ (IsResuming(store, r) /\ last'.op \in {"resume", "handleWorkflowResume"}
                /\ last'.runId = r)
                => /\ store' = store
                   /\ last'.op = "resume" => last'.error = "StateError"
                   /\ last'.op = "handleWorkflowResume" => last'.response.http # 200
          /\ (IsResuming(store, r) /\ IsResuming(store', r))
                => store'[r].resumeData = store[r].resumeData
          /\ store[r].result # Absent
                => (r \in DOMAIN store' /\ store'[r].result = store[r].result)
      ]_vars

\* reached: a second resume was rejected while the first one was in progress
C4_Witness ==
    /\ last.op = "resume"
    /\ last.error = "StateError"
    /\ IsResuming(store, last.runId)

StatusEdges ==
    {<<"running", "suspended">>, <<"suspended", "running">>,
     <<"running", "completed">>, <<"running", "failed">>}

\* C5: no run ever has both a result and a suspendPayload, and the status of
\* a run changes only along running -> suspended, suspended -> running,
\* running -> completed and running -> failed, so a completed or failed run
\* keeps its status under every later start and resume.
C5_StatusTransitions ==
    [][/\ \A r \in DOMAIN store' :
             ~(store'[r].result # Absent /\ store'[r].suspendPayload # Absent)
       /\ \A r \in DOMAIN store :
             /\ r \in DOMAIN store'
             /\ \/ store'[r].status = store[r].status
                \/ <<store[r].status, store'[r].status>> \in StatusEdges
      ]_vars

\* reached: a start was attempted on a completed run, which stayed completed
C5_Witness ==
    /\ last.op = "start"
    /\ last.runId \in DOMAIN store
    /\ store[last.runId].status = "completed"
    /\ store[last.runId].result # Absent

EmailRd(s) == [email |-> Some(s), selectedOptionId |-> Absent]

ChoiceRd(i) == [email |-> Absent, selectedOptionId |-> Some(i)]

CorrectivePayload ==
    [message |-> "Please enter a valid email address.", reason |-> "Invalid email format"]

\* the resume of run r whose step has just run, and the data it was given
Resumed(r) == IsResuming(store, r) /\ last'.op = "resumed" /\ last'.runId = r

\* C6: a resume of a suspended email run with "not-an-email" is taken up and
\* re-suspends the run with the corrective payload; a resume with "a@b.com"
\* is taken up and completes the run with {email: "a@b.com", submitted: true}.
C6_EmailResumeOutcome ==
    [][\A r \in DOMAIN store :
          store[r].wf = EmailWorkflow =>
              /\ \A s \in {NotAnEmail, ABCom} :
                    (IsSuspendedRun(store, r)
                        /\ ResumeBegin(r, "request-email-step", EmailRd(s)))
                    => last'.error = "none"
              /\ (Resumed(r) /\ store[r].resumeData = Some(EmailRd(NotAnEmail)))
                    => /\ store'[r].status = "suspended"
                       /\ store'[r].suspendPayload = Some(CorrectivePayload)
                       /\ store'[r].result = Absent
              /\ (Resumed(r) /\ store[r].resumeData = Some(EmailRd(ABCom)))
                    => /\ store'[r].status = "completed"
                       /\ store'[r].result = Some([email |-> ABCom, submitted |-> TRUE])
      ]_vars

HasOption(options, id) == \E k \in 1..Len(options) : options[k].id = id

\* the labels of the options that carry id
LabelsOf(options, id) == {options[k].label : k \in {j \in 1..Len(options) : options[j].id = id}}

\* the label of the first option that carries id
FirstLabel(options, id) ==
    LET first == CHOOSE k \in 1..Len(options) :
                    options[k].id = id /\ \A j \in 1..Len(options) : options[j].id = id => k <= j
    IN  options[first].label

ChoicePayload(input, reason) ==
    [question |-> input.question, options |-> input.options, reason |-> reason]

\* C7 as stated: a resume of a suspended multiple-choice run with an id that
\* matches no option re-suspends it with reason 'Invalid option selected'
\* and the original question and options; a resume with the id of an
\* existing option completes it with that id, that option's label and
\* submitted = true.
C7_ChoiceResumeAsStated ==
    [][\A r \in DOMAIN store :
          store[r].wf = ChoiceWorkflow =>
              /\ \A i \in SelectedIds :
                    (IsSuspendedRun(store, r)
                        /\ ResumeBegin(r, "multiple-choice-step", ChoiceRd(i)))
                    => last'.error = "none"
              /\ Resumed(r) =>
                    LET id == Get(Get(store[r].resumeData).selectedOptionId)
                        input == Get(store[r].inputData)
                    IN  IF ~HasOption(input.options, id)
                        THEN /\ store'[r].status = "suspended"
                             /\ store'[r].suspendPayload
                                    = Some(ChoicePayload(input, "Invalid option selected"))
                        ELSE /\ store'[r].status = "completed"
                             /\ Get(store'[r].result).selectedOptionId = id
                             /\ Get(store'[r].result).selectedOptionLabel
                                    \in LabelsOf(input.options, id)
                             /\ Get(store'[r].result).submitted
      ]_vars

\* C7 amended: a resume with a non-empty id that matches no option
\* re-suspends the run with reason 'Invalid option selected'; a resume with
\* the empty id re-suspends it with reason 'User selection required', even
\* when an option has the empty id; a resume with the non-empty id of an
\* existing option completes it with that id, the label of the first option
\* of that id and submitted = true.  The suspendPayload always carries the
\* original question and options.
C7_ChoiceResumeOutcome ==
    [][\A r \in DOMAIN store :
          store[r].wf = ChoiceWorkflow =>
              /\ \A i \in SelectedIds :
                    (IsSuspendedRun(store, r)
                        /\ ResumeBegin(r, "multiple-choice-step", ChoiceRd(i)))
                    => last'.error = "none"
              /\ Resumed(r) =>
                    LET id == Get(Get(store[r].resumeData).selectedOptionId)
                        input == Get(store[r].inputData)
                    IN  IF id = ""
                        THEN /\ store'[r].status = "suspended"
                             /\ store'[r].suspendPayload
                                    = Some(ChoicePayload(input, "User selection required"))
                             /\ store'[r].result = Absent
                        ELSE IF ~HasOption(input.options, id)
                        THEN /\ store'[r].status = "suspended"
                             /\ store'[r].suspendPayload
                                    = Some(ChoicePayload(input, "Invalid option selected"))
                             /\ store'[r].result = Absent
                        ELSE /\ store'[r].status = "completed"
                             /\ store'[r].result
                                    = Some([selectedOptionId |-> id,
                                            selectedOptionLabel |-> FirstLabel(input.options, id),
                                            submitted |-> TRUE])
      ]_vars

\* reached: a resume re-suspended a run although one of its options has the
\* id that was selected
C7_Witness ==
    /\ last.op = "resumed"
    /\ IsSuspendedRun(store, last.runId)
    /\ store[last.runId].wf = ChoiceWorkflow
    /\ Get(store[last.runId].inputData).options = EmptyId
    /\ Get(store[last.runId].suspendPayload).reason = "User selection required"

\* resumeData that the step of wf completes on
ValidFor(wf, input, rd) ==
    IF wf = EmailWorkflow
    THEN rd.email # Absent /\ emailRegex_test(Get(rd.email))
    ELSE rd.selectedOptionId # Absent /\ Get(rd.selectedOptionId) # ""
            /\ HasOption(input.options, Get(rd.selectedOptionId))

\* C8: no resume of a suspended run for its step throws, whatever the
\* resumeData; the step keeps the run suspended on resumeData that is missing
\* its field or invalid and completes it on valid resumeData; and a run
\* leaves the suspended status only by a resume.
C8_InvalidResumeKeepsSuspended ==
    [][\A r \in DOMAIN store :
          /\ (IsSuspendedRun(store, r) /\ last'.op = "resume" /\ last'.runId = r
                /\ last'.step = store[r].currentStepId)
                => last'.error = "none"
          /\ (IsSuspendedRun(store, r) /\ ~IsSuspendedRun(store', r))
                => (last'.op \in {"resume", "handleWorkflowResume"} /\ last'.runId = r)
          /\ Resumed(r) =>
                IF ValidFor(store[r].wf, Get(store[r].inputData), Get(store[r].resumeData))
                THEN store'[r].status = "completed"
                ELSE store'[r].status = "suspended"
      ]_vars

EscalateOps == {"escalateTool", "escalateTool_message"}

\* C9: for every input with reason = emergency, escalateTool returns
\* requiresEmail = false and no workflowRunId, and creates or starts no run.
C9_EmergencyNeverCollectsEmail ==
    [][last'.op \in EscalateOps =>
          \A i \in EscalateInputs :
              (i.reason = "emergency" /\ (EscalateTool(i) \/ EscalateToolMessage(i)))
              => /\ ~last'.threw
                 /\ Get(last'.result).requiresEmail = Some(FALSE)
                 /\ Get(last'.result).workflowRunId = Absent
                 /\ UNCHANGED <<store, chat>>
      ]_vars

\* C10: escalateTool with reason = no_results and searchResultsCount = 0
\* returns suspended = true, a workflowRunId and a suspendPayload whose
\* message is the no-match wording, and the run of that id is a suspended
\* email-collection run.
C10_NoResultsSuspendsEmailRun ==
    [][last'.op = "escalateTool" =>
          \A i \in EscalateInputs :
              (i.reason = "no_results" /\ i.searchResultsCount = Some(0) /\ EscalateTool(i))
              => /\ ~last'.threw
                 /\ Get(last'.result).suspended = Some(TRUE)
                 /\ Get(last'.result).workflowRunId # Absent
                 /\ Get(last'.result).suspendPayload # Absent
                 /\ Get(Get(last'.result).suspendPayload).message = NoMatchMessage
                 /\ IsSuspendedRun(store', Get(Get(last'.result).workflowRunId))
                 /\ store'[Get(Get(last'.result).workflowRunId)].wf = EmailWorkflow
      ]_vars

\* the email workflow cannot be resolved, created or started for input
EmailWorkflowThrows(st, input, runId) ==
    \/ ~getWorkflow(EmailWorkflow)
    \/ startError(createRun(st, EmailWorkflow, runId), runId,
                  [message |-> Some(escalationMessage(input)), chatId |-> input.chatId])
           # "none"

\* the wording the escalation of input calls for
ComposedMessage(input) ==
    IF input.reason = "no_results" \/ input.searchResultsCount \in {Absent, Some(0)}
    THEN NoMatchMessage
    ELSE IF input.reason = "user_request" THEN UserRequestMessage
    ELSE LowConfidenceMessage

\* C11: for every non-emergency input, when resolving, creating or starting
\* the email workflow throws, escalateTool does not throw: it returns
\* escalated = true, requiresEmail = true, the composed reason-specific
\* message, the input's reason and question, and no workflowRunId.  Stated of
\* the call's outcome in every reachable store.
C11_EscalateFallsBack ==
    \A i \in EscalateInputs :
        (i.reason # "emergency" /\ EmailWorkflowThrows(store, i, FreshId))
        => LET out == escalateTool_execute(store, i, FreshId)
           IN  /\ ~out.threw
               /\ Get(out.result) =
                      [NoResult EXCEPT !.escalated = Some(TRUE),
                                       !.requiresEmail = Some(TRUE),
                                       !.message = Some(ComposedMessage(i)),
                                       !.reason = Some(i.reason),
                                       !.question = Some(i.question)]

\* reached: a user-requested escalation fell back to the plain message
C11_Witness ==
    /\ last.op = "escalateTool"
    /\ ~last.threw
    /\ Get(last.result).reason = Some("user_request")
    /\ Get(last.result).message = Some(UserRequestMessage)
    /\ Get(last.result).requiresEmail = Some(TRUE)
    /\ Get(last.result).workflowRunId = Absent

\* C12: every result of escalateTool, on every path, has escalated = true and
\* reason and question equal to the input's reason and question; every
\* non-emergency result has requiresEmail = true.
C12_EscalateResultAnnotated ==
    [][last'.op \in EscalateOps =>
          \A i \in EscalateInputs :
              (EscalateTool(i) \/ EscalateToolMessage(i))
              => /\ ~last'.threw
                 /\ Get(last'.result).escalated = Some(TRUE)
                 /\ Get(last'.result).reason = Some(i.reason)
                 /\ Get(last'.result).question = Some(i.question)
                 /\ i.reason # "emergency"
                        => Get(last'.result).requiresEmail = Some(TRUE)
      ]_vars

NonBlank(s) == \E k \in 1..Len(s) : s[k] \notin Whitespace

\* C13: whatever id the run-creation call reports (missing, not a string,
\* empty or blank), the workflowRunId a tool goes on to return is a
\* non-empty, non-whitespace string, and the generated fallback id is itself
\* never empty or blank.
C13_RunIdNeverBlank ==
    last.op = "resolveRunId" =>
        /\ NonBlank(last.generatedRunId)
        /\ ~last.threw => NonBlank(last.workflowRunId)
        /\ (last.id.type # "string" \/ ~NonBlank(last.id.text))
              => (~last.threw /\ last.workflowRunId = last.generatedRunId)

\* reached: the handle reported a blank id, the random suffix was empty, and
\* the generated id was returned
C13_Witness ==
    /\ last.op = "resolveRunId"
    /\ last.id = [type |-> "string", text |-> <<" ">>]
    /\ last.generatedRunId = <<"r", "u", "n", "_", "1", "0", "_">>
    /\ ~last.threw
    /\ last.workflowRunId = last.generatedRunId

\* C14: the workflowRunId a bridge tool returns identifies the run the tool
\* created and started, and a later resume request with the id of a suspended
\* run and the run's step locates that same run, with its original
\* inputData, never a fresh or different one.
C14_ReturnedIdLocatesRun ==
    [][/\ (last'.op \in BridgeTools /\ ~last'.threw)
             => LET id == Get(Get(last'.result).workflowRunId)
                IN  /\ id \notin DOMAIN store
                    /\ id \in DOMAIN store'
                    /\ store'[id].started
       /\ \A r \in DOMAIN store :
             (IsSuspendedRun(store, r) /\ last'.op = "handleWorkflowResume"
                 /\ last'.runId = r /\ last'.step = store[r].currentStepId)
             => /\ last'.response.error
                       \notin {Some("Workflow not found"), Some("NotFoundError")}
                /\ DOMAIN store' = DOMAIN store
                /\ store'[r].wf = store[r].wf
                /\ store'[r].inputData = store[r].inputData
      ]_vars

\* C15: when the target workflow cannot be resolved, requestEmailTool and
\* multipleChoiceTool throw and return no result at all, and no run is
\* created or started.
C15_UnresolvedWorkflowThrows ==
    [][last'.op \in BridgeTools =>
          /\ \A i \in EmailToolInputs :
                (~getWorkflow(EmailWorkflow) /\ RequestEmailTool(i))
                => (last'.threw /\ last'.result = Absent /\ store' = store)
          /\ \A i \in ChoiceToolInputs :
                (~getWorkflow(ChoiceWorkflow) /\ MultipleChoiceTool(i))
                => (last'.threw /\ last'.result = Absent /\ store' = store)
      ]_vars

\* reached: multipleChoiceTool threw while a run of another caller was suspended
C15_Witness ==
    /\ last.op = "multipleChoiceTool"
    /\ last.threw
    /\ last.result = Absent
    /\ \E r \in DOMAIN store : store[r].status = "suspended"

SearchOps == {"vectorSearchTool", "keywordSearchTool", "performAutoVectorSearch"}

\* C19: for a query that is empty or whitespace-only, vectorSearchTool,
\* keywordSearchTool and performAutoVectorSearch return context '', no
\* results, resultCount 0, hasResults false and isNoMatch true, and make no
\* call to the retrieval backend.
C19_EmptyQueryShortCircuits ==
    (last.op \in SearchOps /\ ~NonBlank(last.query)) =>
        /\ ~last.threw
        /\ last.result = Some([context |-> <<>>, results |-> <<>>, resultCount |-> 0,
                               hasResults |-> FALSE, isNoMatch |-> TRUE])
        /\ last.calls = 0

\* the first non-empty of text, content, excerpt in fields, then in metadata
ContentInStatedOrder(hit) ==
    LET f == IF hit.fields = Absent THEN NoContainer ELSE Get(hit.fields)
        m == IF hit.metadata = Absent THEN NoContainer ELSE Get(hit.metadata)
        given(v) == v # Absent /\ v # Some("")
    IN  IF given(f.text) THEN Get(f.text)
        ELSE IF given(f.content) THEN Get(f.content)
        ELSE IF given(f.excerpt) THEN Get(f.excerpt)
        ELSE IF given(m.text) THEN Get(m.text)
        ELSE IF given(m.content) THEN Get(m.content)
        ELSE IF given(m.excerpt) THEN Get(m.excerpt)
        ELSE ""

\* C20: the content of a normalized hit is the first non-empty value in the
\* order text, content, excerpt of fields, then text, content, excerpt of
\* metadata, else the empty string; a hit with fields.text = "X" and
\* metadata.content = "Y" normalizes to content "X".
C20_ContentPrecedence ==
    (last.op \in {"vectorSearchTool", "performAutoVectorSearch"} /\ ~last.threw) =>
        LET results == Get(last.result).results
            hits == last.backend.hits
        IN  \A k \in 1..Len(results) :
                /\ results[k].content = ContentInStatedOrder(hits[k])
                /\ (fieldsOf(hits[k]).text = Some("X")
                        /\ metadataOf(hits[k]).content = Some("Y"))
                      => results[k].content = "X"

\* the search of the request being served gave at least one hit
SearchHit == chat.searched = "returned" /\ Len(chat.results) >= 1

\* C16: when auto-search yields at least one hit, the stream the chat handler
\* returns has the auto-rag-sources event as its first frame, before any
\* chunk of the agent's stream, and every frame after it is a chunk of the
\* agent's stream, unmodified and in the original order, none dropped,
\* duplicated or reordered.
C16_EventThenChunksInOrder ==
    (chat.pc = "streaming" /\ SearchHit /\ chat.hasBody) =>
        LET frames == chat.out \o chat.queue
        IN  /\ Len(frames) >= 1
            /\ frames[1].type = "auto-rag-sources"
            /\ Len(frames[1].sources) = Len(chat.results)
            /\ \A k \in 2..Len(frames) : frames[k] = [type |-> "chunk", index |-> k - 1]
            /\ Len(frames) + Len(chat.src) + Len(chat.todo) = 1 + chat.chunks
            /\ chat.closed => Len(frames) = 1 + chat.chunks

\* reached: the client has taken the event and then every chunk of a stream
\* of MaxChunks chunks, and the stream is closed
C16_Witness ==
    /\ chat.pc = "streaming"
    /\ SearchHit
    /\ chat.closed
    /\ chat.chunks = MaxChunks
    /\ Len(chat.out) = 1 + MaxChunks
    /\ chat.out[1].type = "auto-rag-sources"

\* no user message of the request carries a non-blank text
NoUserText(messages) ==
    \A k \in 1..Len(messages) :
        messages[k].role = "user" =>
            /\ messages[k].text = Absent \/ ~NonBlank(Get(messages[k].text))
            /\ messages[k].parts = Absent
                  \/ \A j \in 1..Len(Get(messages[k].parts)) :
                        \/ Get(messages[k].parts)[j].text = Absent
                        \/ ~NonBlank(Get(Get(messages[k].parts)[j].text))

\* C17: when auto-search yields zero hits, throws, or is not run (no user
\* message with non-empty text), the chat handler emits no augmentation
\* event and returns the agent's response stream unchanged, frame for frame.
C17_PassThroughWithoutHits ==
    /\ (chat.pc = "streaming" /\ NoUserText(chat.messages)) => chat.searched = "notRun"
    /\ (chat.pc = "streaming" /\ ~SearchHit) =>
            /\ ~chat.wrapped
            /\ chat.queue = <<>>
            /\ \A k \in 1..Len(chat.out) : chat.out[k] = [type |-> "chunk", index |-> k]
            /\ Len(chat.out) + Len(chat.src) + Len(chat.todo) = chat.chunks

\* reached: the search threw and the client has taken every chunk of the
\* agent's stream
C17_Witness ==
    /\ chat.pc = "streaming"
    /\ chat.searched = "threw"
    /\ chat.chunks = MaxChunks
    /\ Len(chat.out) = MaxChunks
    /\ chat.todo = <<>>

\* C18: the multiplexer does not read a further chunk from the agent's
\* stream while the client has not taken the frames already enqueued, so the
\* frames buffered in the wrapped stream stay bounded.
C18_PumpWaitsForConsumer ==
    [][(chat.wrapped /\ Len(chat'.src) < Len(chat.src)) => chat.queue = <<>>]_vars

\* the first non-empty of fields.title and metadata.title, else "Untitled"
TitleInStatedOrder(hit) ==
    LET f == IF hit.fields = Absent THEN NoContainer ELSE Get(hit.fields)
        m == IF hit.metadata = Absent THEN NoContainer ELSE Get(hit.metadata)
        given(v) == v # Absent /\ v # Some("")
    IN  IF given(f.title) THEN Get(f.title)
        ELSE IF given(m.title) THEN Get(m.title)
        ELSE "Untitled"

\* C21: the title written into the context block of a hit by vectorSearchTool
\* and performAutoVectorSearch is fields.title when that is non-empty, else
\* metadata.title when that is non-empty, else "Untitled".
C21_TitlePrecedence ==
    (last.op \in {"vectorSearchTool", "performAutoVectorSearch"} /\ ~last.threw) =>
        LET context == Get(last.result).context
            hits == last.backend.hits
        IN  \A k \in 1..Len(context) :
                context[k].title = TitleInStatedOrder(hits[k])

\* the searchRecords call of the last search was made and failed
SearchCallFailed ==
    /\ last.apiKey
    /\ NonBlank(last.query)
    /\ last.backend.index = "ok"
    /\ last.backend.search = "throws"

\* C22: when the backend search call fails, vectorSearchTool and
\* performAutoVectorSearch do not throw: they return results [], resultCount 0,
\* hasResults false and isNoMatch true.
C22_SearchFailureGivesEmptyResult ==
    (last.op \in {"vectorSearchTool", "performAutoVectorSearch"} /\ SearchCallFailed) =>
        /\ ~last.threw
        /\ Get(last.result).results = <<>>
        /\ Get(last.result).resultCount = 0
        /\ Get(last.result).hasResults = FALSE
        /\ Get(last.result).isNoMatch = TRUE

\* the request's last user message has text, and the search made for it
\* fails: the key is not configured, the client cannot be initialised, or the
\* backend call fails
AutoSearchThrows(messages, apiKey, backend) ==
    LET lastUser == lastUserMessage(messages)
    IN  /\ lastUser # Absent
        /\ NonBlank(extractMessageText(Get(lastUser)))
        /\ (~apiKey \/ backend.index = "throws" \/ backend.search = "throws")

\* C23: when auto-search throws in the chat handler, the handler does not
\* throw: it calls the agent's chat handler exactly once and returns that
\* response unwrapped, with nothing injected; the failure is recorded in
\* body.data.autoSearchError only.
C23_SearchFailureDegrades ==
    [][\A m \in MessageLists : \A k \in BOOLEAN : \A b \in ChatBackends :
          \A r \in Responses :
            (AutoSearchThrows(m, k, b) /\ ChatHandler(m, k, b, r)) =>
                /\ chat'.pc = "streaming"
                /\ chat'.agentCalls = 1
                /\ chat'.data = [autoSearchPerformed |-> FALSE, resultCount |-> 0,
                                 autoSearchError |-> TRUE]
                /\ chat'.hasBody = r.body
                /\ ~chat'.wrapped
                /\ chat'.queue = <<>>
                /\ chat'.todo = [n \in 1..r.chunks |-> Chunk(n)]
      ]_vars

\* reached: the search failed and the client read the agent's whole response
C23_Witness ==
    /\ chat.searched = "threw"
    /\ chat.data.autoSearchError
    /\ chat.agentCalls = 1
    /\ chat.chunks >= 1
    /\ chat.out = [n \in 1..chat.chunks |-> Chunk(n)]

\* the resume that body asks for completes the suspended email run it names
ResumeCompletesEmailRun(st, body) ==
    /\ IsSuspendedRun(st, body.workflowRunId)
    /\ st[body.workflowRunId].wf = EmailWorkflow
    /\ body.step = st[body.workflowRunId].currentStepId
    /\ LET resumed == resume(st, body.workflowRunId, body.step, body.resumeData)
       IN  /\ resumed.error = "none"
           /\ resumed.store[body.workflowRunId].status = "completed"

\* C24: when the resume of a request that carries an escalationContext
\* completes the run, the response of the resume endpoint has the status, the
\* output, and the escalationContext with its reason, question, chatId and
\* searchResultsCount unchanged and the email collected by the resume added.
C24_CompletedResumeCarriesEmail ==
    [][last'.op = "handleWorkflowResume" =>
          \A b \in RouteBodies :
              (/\ b # Absent
               /\ Get(b).escalationContext # Absent
               /\ ResumeCompletesEmailRun(store, Get(b))
               /\ HandleWorkflowResume(b))
              => /\ last'.response.http = 200
                 /\ last'.response.status = Some("success")
                 /\ last'.response.output = store'[Get(b).workflowRunId].result
                 /\ last'.response.escalationContext =
                        Some([context |-> Get(Get(b).escalationContext),
                              email |-> Get(Get(b).resumeData.email)])
      ]_vars

\* C25: in every result vectorSearchTool, keywordSearchTool and
\* performAutoVectorSearch return, resultCount is the number of entries of
\* results, hasResults is resultCount > 0 and isNoMatch is the negation of
\* hasResults.
C25_ResultFlagsDerived ==
    (last.op \in SearchOps /\ ~last.threw) =>
        LET res == Get(last.result)
        IN  /\ res.resultCount = Len(res.results)
            /\ res.hasResults = (res.resultCount > 0)
            /\ res.isNoMatch = ~res.hasResults
            /\ res.hasResults # res.isNoMatch

\* reached: a search that returned more than one hit
C25_Witness ==
    /\ last.op \in SearchOps
    /\ ~last.threw
    /\ Get(last.result).resultCount = MaxHits
    /\ Get(last.result).hasResults
    /\ Len(last.backend.hits) = MaxHits

\* the resume that body asks for does not go through: the body is malformed,
\* the workflow of the step or the run cannot be resolved, the run is not
\* suspended, or the step is not the one it is suspended at
FailedResume(st, body) ==
    \/ body = Absent
    \/ ~getWorkflow(workflowForStep(Get(body).step))
    \/ LET parsed == Get(body)
           st1 == createRun(st, workflowForStep(parsed.step), parsed.workflowRunId)
       IN  resume(st1, parsed.workflowRunId, parsed.step, parsed.resumeData).error
               # "none"

HasHits(input) ==
    input.searchResultsCount # Absent /\ Get(input.searchResultsCount) > 0

\* the wording picked for input is as stated: no-match whenever the reason is
\* no_results or the count is 0 or omitted, user-request only for
\* user_request with hits, low-confidence only for low_confidence or
\* sensitive with hits
WordingAsStated(input, message) ==
    /\ (input.reason = "no_results" \/ ~HasHits(input)) => message = NoMatchMessage
    /\ message = UserRequestMessage
          <=> (input.reason = "user_request" /\ HasHits(input))
    /\ message = LowConfidenceMessage
          <=> (input.reason \in {"low_confidence", "sensitive"} /\ HasHits(input))

\* C27: for every non-emergency input, the wording escalateTool picks, in
\* either version of the tool, is the no-match wording whenever reason =
\* no_results or searchResultsCount is 0 or omitted, the user-request wording
\* only for user_request with searchResultsCount > 0, and the low-confidence
\* wording only for low_confidence or sensitive with searchResultsCount > 0.
\* Stated of the call's outcome in every reachable store.
C27_WordingByReasonAndCount ==
    \A i \in EscalateInputs :
        i.reason # "emergency" =>
            /\ WordingAsStated(i, escalationMessage(i))
            /\ LET out == escalateTool_execute(store, i, FreshId)
               IN  Get(out.result).message # Absent
                       => WordingAsStated(i, Get(Get(out.result).message))
            /\ WordingAsStated(i,
                   Get(Get(escalateTool_message_execute(store, i).result).message))

\* reached: a user-requested escalation with no hits got the no-match wording
C27_Witness ==
    /\ last.op = "escalateTool"
    /\ ~last.threw
    /\ Get(last.result).reason = Some("user_request")
    /\ Get(last.result).message = Some(NoMatchMessage)

\* s has no whitespace character and reads local@domain.tld, no segment empty
AddressShape(s) ==
    /\ \A k \in 1..Len(s) : s[k] \notin Whitespace
    /\ \E i \in 2..Len(s) : \E j \in (i + 2)..(Len(s) - 1) :
          s[i] = "@" /\ s[j] = "."

\* s begins or ends with a whitespace character
Padded(s) == Len(s) > 0 /\ (s[1] \in Whitespace \/ s[Len(s)] \in Whitespace)

\* C28: every email the email-collection step completes with has no
\* whitespace and the shape local@domain.tld, and the email it emits equals
\* the resumeData email character for character; an address with leading or
\* trailing whitespace never completes the step or the run, which is
\* suspended after it.  Stated of the step on every address and input, and of
\* every email run of the store.
C28_AcceptedEmailUntouched ==
    /\ \A s \in EmailStrings : \A i \in EmailInputs :
          LET out == requestEmailStep_execute(i, Some(EmailRd(s)))
          IN  /\ out.kind = "done" =>
                    /\ AddressShape(s)
                    /\ Get(out.output).email = s
              /\ Padded(s) => out.kind = "suspend"
    /\ \A r \in DOMAIN store :
          store[r].wf = EmailWorkflow =>
              /\ store[r].status = "completed" =>
                    AddressShape(Get(store[r].result).email)
              /\ IsSuspendedRun(store, r) =>
                    \A s \in EmailStrings :
                        LET after == resume(store, r, "request-email-step",
                                            EmailRd(s)).store[r]
                        IN  /\ after.status = "completed" =>
                                  /\ AddressShape(s)
                                  /\ Get(after.result).email = s
                            /\ Padded(s) =>
                                  after.status = "suspended" /\ after.result = Absent

\* reached: an email run was resumed and completed with the address a@b.com
C28_Witness ==
    /\ last.op = "resumed"
    /\ last.runId \in DOMAIN store
    /\ store[last.runId].wf = EmailWorkflow
    /\ store[last.runId].status = "completed"
    /\ Get(store[last.runId].result).email = ABCom

\* the frames the wrapped stream has been given so far
WrappedFrames == chat.out \o chat.queue

\* C29: a wrapped stream over an agent stream of n chunks is closed in the
\* end; it is closed only once the agent's stream has reported done, when it
\* has been given exactly n + 1 frames, the event and then the n chunks;
\* and after it is closed it stays closed and is given no further frame.
C29_WrappedStreamCloses ==
    /\ [](chat.closed =>
            /\ chat.wrapped
            /\ readerDone(chat)
            /\ Len(WrappedFrames) = chat.chunks + 1
            /\ WrappedFrames[1].type = "auto-rag-sources"
            /\ \A k \in 1..chat.chunks : WrappedFrames[k + 1] = Chunk(k))
    /\ [][chat.closed =>
              /\ chat'.closed
              /\ chat'.out \o chat'.queue = WrappedFrames]_vars
    /\ (chat.wrapped ~> chat.closed)

\* reached: the wrapped stream is closed and the client has not yet taken
\* the last chunk
C29_Witness ==
    /\ chat.wrapped
    /\ chat.closed
    /\ chat.chunks = MaxChunks
    /\ Len(chat.out) = MaxChunks
    /\ Len(chat.queue) = 1

\* the line as the step keeps it, or Absent when the step drops it: blank,
\* numbered, of length 10 or less, or of length 200 or more
KeptLine(line) ==
    LET l == trim(line)
    IN  IF l = <<>> THEN Absent
        ELSE IF l[1] \in Digits
                /\ \E k \in 2..Len(l) :
                      /\ l[k] \in {".", ")"}
                      /\ \A j \in 1..(k - 1) : l[j] \in Digits
        THEN Absent
        ELSE IF Len(l) <= 10 \/ Len(l) >= 200 THEN Absent
        ELSE Some(l)

\* the lines of the agent's answer the step keeps, in their order
RECURSIVE KeptLines(_)
KeptLines(lines) ==
    IF lines = <<>> THEN <<>>
    ELSE IF KeptLine(Head(lines)) = Absent THEN KeptLines(Tail(lines))
    ELSE <<Get(KeptLine(Head(lines)))>> \o KeptLines(Tail(lines))

\* C30: whatever text the suggestion agent returns, the step returns between
\* 4 and 6 suggestions: the agent's lines that are not blank, not numbered
\* and longer than 10 and shorter than 200, in their order and at most 6 of
\* them, and when fewer than 4 of them remain, the first entries of the
\* fallback list in its order, up to exactly 4 suggestions.
C30_FourToSixSuggestions ==
    last.op = "generateSuggestions" =>
        LET res == last.suggestions
            kept == KeptLines(last.lines)
            n == IF Len(kept) > 6 THEN 6 ELSE Len(kept)
        IN  /\ Len(res) >= 4
            /\ Len(res) <= 6
            /\ \A k \in 1..n : res[k] = [kind |-> "agent", line |-> kept[k], index |-> 0]
            /\ n >= 4 => Len(res) = n
            /\ n < 4 => /\ Len(res) = 4
                        /\ \A k \in 1..(4 - n) :
                              res[n + k] = [kind |-> "fallback", line |-> <<>>,
                                            index |-> k]

\* reached: two lines of the answer were kept, one dropped, and two fallbacks
\* fill the list
C30_Witness ==
    /\ last.op = "generateSuggestions"
    /\ Len(last.lines) = 3
    /\ Len(last.suggestions) = 4
    /\ last.suggestions[2].kind = "agent"
    /\ last.suggestions[3] = Fallback(1)
    /\ last.suggestions[4] = Fallback(2)

====
